---------------------------- MODULE Spec2Model ----------------------------
(***************************************************************************)
(* The geometry calculator (04-cpp-geometry-calculator): the three shape   *)
(* classes Circle, Rectangle and Triangle with their validating            *)
(* constructors and setters, and the GeometryCalculator that owns a        *)
(* vector of shapes.                                                       *)
(*                                                                         *)
(* Numbers.  Every parameter and attribute of the code is a C++ double.    *)
(* A double is modelled as a record [nan, v]: either the NaN, or a finite  *)
(* value v on a fixed-point grid whose unit is half of the tolerance       *)
(* epsilon of triangle.cpp (so epsilon is 2 grid units and two sides can   *)
(* differ by less than epsilon without being equal).  Comparisons follow   *)
(* IEEE 754: every ordered comparison with a NaN operand is false, and     *)
(* arithmetic on a NaN gives NaN.  Rounding and infinities are not         *)
(* modelled: finite arithmetic is exact.                                   *)
(*                                                                         *)
(* The results of area() and perimeter() are kept exactly, as              *)
(*      rat + pi * M_PI + sum of sqrt(r / 16) over the bag roots,          *)
(* a record [nan, rat, pi, roots].                                         *)
(***************************************************************************)
EXTENDS Integers, Sequences, FiniteSets, Bags, TLC

VARIABLES
    obj,          \* the instance the caller holds (a unique_ptr or a local), or NULL
    shapes_,      \* GeometryCalculator::shapes_
    call,         \* the call just made: its name, arguments and outcome, and
                  \* shapes_.size() as the call found it
    accepted,     \* history: the arguments of the addShape calls that grew shapes_ since the last clear
    sumArea,      \* history: area() of each such argument, added up as it was accepted
    sumPerimeter  \* history: perimeter() of each such argument, added up as it was accepted

vars == <<obj, shapes_, call, accepted, sumArea, sumPerimeter>>

-----------------------------------------------------------------------------
(* Bounds of the model *)

\* Finite parameter values range over -1 .. MaxSide grid units.
MaxSide == 7

\* shapes_ grows to at most MaxShapes elements.
MaxShapes == 3

-----------------------------------------------------------------------------
(* double *)

D(v) == [nan |-> FALSE, v |-> v]

NaN == [nan |-> TRUE, v |-> 0]

Doubles == {D(v) : v \in -1 .. MaxSide} \cup {NaN}

\* x <= y, x < y, x > y on doubles: false when either operand is NaN
DLe(x, y) == ~x.nan /\ ~y.nan /\ x.v <= y.v

DLt(x, y) == ~x.nan /\ ~y.nan /\ x.v < y.v

DGt(x, y) == ~x.nan /\ ~y.nan /\ x.v > y.v

\* x + y, x - y, std::abs(x)
DAdd(x, y) == IF x.nan \/ y.nan THEN NaN ELSE D(x.v + y.v)

DSub(x, y) == IF x.nan \/ y.nan THEN NaN ELSE D(x.v - y.v)

DAbs(x) == IF x.nan THEN NaN ELSE D(IF x.v < 0 THEN -x.v ELSE x.v)

\* the literal 0 of the comparisons "<= 0" and "> 0"
Zero == D(0)

\* const double epsilon = 1e-9, in grid units (one unit is 0.5e-9)
epsilon == 2

-----------------------------------------------------------------------------
(* Exact results of area() and perimeter() *)

RNaN == [nan |-> TRUE, rat |-> 0, pi |-> 0, roots |-> EmptyBag]

Rat(n) == [nan |-> FALSE, rat |-> n, pi |-> 0, roots |-> EmptyBag]

\* M_PI * n
PiTimes(n) == [nan |-> FALSE, rat |-> 0, pi |-> n, roots |-> EmptyBag]

\* std::sqrt(r / 16): NaN for a negative radicand
Sqrt16(r) ==
    IF r < 0 THEN RNaN
    ELSE IF r = 0 THEN Rat(0)
    ELSE [nan |-> FALSE, rat |-> 0, pi |-> 0, roots |-> SetToBag({r})]

\* total += x
RAdd(x, y) ==
    IF x.nan \/ y.nan THEN RNaN
    ELSE [nan |-> FALSE, rat |-> x.rat + y.rat, pi |-> x.pi + y.pi,
          roots |-> x.roots (+) y.roots]

-----------------------------------------------------------------------------
(* Shape instances *)

NULL == [kind |-> "null"]

\* the outcome of a constructor or setter: whether std::invalid_argument was
\* thrown, and the instance as the call leaves it (NULL: none was produced)
Ok(o) == [threw |-> FALSE, obj |-> o]

Throw(o) == [threw |-> TRUE, obj |-> o]

(* Circle *)

Circle(radius) ==
    IF DLe(radius, Zero) THEN Throw(NULL)
    ELSE Ok([kind |-> "Circle", radius_ |-> radius])

setRadius(this, radius) ==
    IF DLe(radius, Zero) THEN Throw(this)
    ELSE Ok([this EXCEPT !.radius_ = radius])

(* Rectangle *)

Rectangle(width, height) ==
    IF DLe(width, Zero) \/ DLe(height, Zero) THEN Throw(NULL)
    ELSE Ok([kind |-> "Rectangle", width_ |-> width, height_ |-> height])

setDimensions(this, width, height) ==
    IF DLe(width, Zero) \/ DLe(height, Zero) THEN Throw(this)
    ELSE Ok([this EXCEPT !.width_ = width, !.height_ = height])

(* Triangle *)

satisfiesTriangleInequality(this) ==
    /\ DGt(DAdd(this.side_a_, this.side_b_), this.side_c_)
    /\ DGt(DAdd(this.side_b_, this.side_c_), this.side_a_)
    /\ DGt(DAdd(this.side_a_, this.side_c_), this.side_b_)

\* Faulty variant: a constructor that checks the signs only.
\* C3_ConstructionFailsOrStores does not hold of it.
Triangle_SignsOnly(side_a, side_b, side_c) ==
    IF DLe(side_a, Zero) \/ DLe(side_b, Zero) \/ DLe(side_c, Zero)
    THEN Throw(NULL)
    ELSE Ok([kind |-> "Triangle", side_a_ |-> side_a,
             side_b_ |-> side_b, side_c_ |-> side_c])

Triangle(side_a, side_b, side_c) ==
    LET this == [kind |-> "Triangle", side_a_ |-> side_a,
                 side_b_ |-> side_b, side_c_ |-> side_c]
    IN  IF DLe(side_a, Zero) \/ DLe(side_b, Zero) \/ DLe(side_c, Zero)
        THEN Throw(NULL)
        ELSE IF ~satisfiesTriangleInequality(this) THEN Throw(NULL)
        ELSE Ok(this)

\* Faulty variant: side_a_ is assigned before the inequality is checked.
\* C2_FailedSetterChangesNothing does not hold of it.
setSides_AssignsEarly(this, side_a, side_b, side_c) ==
    IF DLe(side_a, Zero) \/ DLe(side_b, Zero) \/ DLe(side_c, Zero)
    THEN Throw(this)
    ELSE IF \/ DLe(DAdd(side_a, side_b), side_c)
            \/ DLe(DAdd(side_b, side_c), side_a)
            \/ DLe(DAdd(side_a, side_c), side_b)
    THEN Throw([this EXCEPT !.side_a_ = side_a])
    ELSE Ok([this EXCEPT !.side_a_ = side_a, !.side_b_ = side_b,
                         !.side_c_ = side_c])

setSides(this, side_a, side_b, side_c) ==
    IF DLe(side_a, Zero) \/ DLe(side_b, Zero) \/ DLe(side_c, Zero)
    THEN Throw(this)
    ELSE IF \/ DLe(DAdd(side_a, side_b), side_c)
            \/ DLe(DAdd(side_b, side_c), side_a)
            \/ DLe(DAdd(side_a, side_c), side_b)
    THEN Throw(this)
    ELSE Ok([this EXCEPT !.side_a_ = side_a, !.side_b_ = side_b,
                         !.side_c_ = side_c])

sides(this) == <<this.side_a_, this.side_b_, this.side_c_>>

isEquilateral(this) ==
    /\ DLt(DAbs(DSub(this.side_a_, this.side_b_)), D(epsilon))
    /\ DLt(DAbs(DSub(this.side_b_, this.side_c_)), D(epsilon))

isIsosceles(this) ==
    \/ DLt(DAbs(DSub(this.side_a_, this.side_b_)), D(epsilon))
    \/ DLt(DAbs(DSub(this.side_b_, this.side_c_)), D(epsilon))
    \/ DLt(DAbs(DSub(this.side_a_, this.side_c_)), D(epsilon))

(* The overrides of the Shape interface.  s = perimeter() / 2.0 in       *)
(* Triangle::area is kept as the perimeter p = 2 s, which makes Heron's  *)
(* radicand s (s - a) (s - b) (s - c) = p (p - 2a) (p - 2b) (p - 2c) / 16 *)

Circle_area(this) ==
    IF this.radius_.nan THEN RNaN
    ELSE PiTimes(this.radius_.v * this.radius_.v)

Circle_perimeter(this) ==
    IF this.radius_.nan THEN RNaN
    ELSE PiTimes(2 * this.radius_.v)

Circle_name(this) == "Circle"

Circle_isValid(this) == DGt(this.radius_, Zero)

Rectangle_area(this) ==
    IF this.width_.nan \/ this.height_.nan THEN RNaN
    ELSE Rat(this.width_.v * this.height_.v)

Rectangle_perimeter(this) ==
    LET sum == DAdd(this.width_, this.height_)
    IN  IF sum.nan THEN RNaN ELSE Rat(2 * sum.v)

Rectangle_name(this) == "Rectangle"

Rectangle_isValid(this) ==
    DGt(this.width_, Zero) /\ DGt(this.height_, Zero)

Triangle_perimeter(this) ==
    LET sum == DAdd(DAdd(this.side_a_, this.side_b_), this.side_c_)
    IN  IF sum.nan THEN RNaN ELSE Rat(sum.v)

\* the argument of std::sqrt in Triangle::area, times 16: a double
Triangle_radicand16(this) ==
    LET p == Triangle_perimeter(this)
    IN  IF p.nan THEN NaN
        ELSE D(p.rat * (p.rat - 2 * this.side_a_.v)
                     * (p.rat - 2 * this.side_b_.v)
                     * (p.rat - 2 * this.side_c_.v))

Triangle_area(this) ==
    LET r == Triangle_radicand16(this)
    IN  IF r.nan THEN RNaN ELSE Sqrt16(r.v)

\* Faulty variant: the isosceles test comes first, so that an equilateral
\* triangle is named isosceles.  C11_NameFollowsStoredSides does not hold
\* of it.
Triangle_name_IsoscelesFirst(this) ==
    IF isIsosceles(this) THEN "Isosceles Triangle"
    ELSE IF isEquilateral(this) THEN "Equilateral Triangle"
    ELSE "Scalene Triangle"

Triangle_name(this) ==
    IF isEquilateral(this) THEN "Equilateral Triangle"
    ELSE IF isIsosceles(this) THEN "Isosceles Triangle"
    ELSE "Scalene Triangle"

Triangle_isValid(this) ==
    /\ DGt(this.side_a_, Zero)
    /\ DGt(this.side_b_, Zero)
    /\ DGt(this.side_c_, Zero)
    /\ satisfiesTriangleInequality(this)

(* The Shape interface: a virtual call, dispatched on the dynamic type *)

area(this) ==
    CASE this.kind = "Circle" -> Circle_area(this)
      [] this.kind = "Rectangle" -> Rectangle_area(this)
      [] this.kind = "Triangle" -> Triangle_area(this)

perimeter(this) ==
    CASE this.kind = "Circle" -> Circle_perimeter(this)
      [] this.kind = "Rectangle" -> Rectangle_perimeter(this)
      [] this.kind = "Triangle" -> Triangle_perimeter(this)

name(this) ==
    CASE this.kind = "Circle" -> Circle_name(this)
      [] this.kind = "Rectangle" -> Rectangle_name(this)
      [] this.kind = "Triangle" -> Triangle_name(this)

isValid(this) ==
    CASE this.kind = "Circle" -> Circle_isValid(this)
      [] this.kind = "Rectangle" -> Rectangle_isValid(this)
      [] this.kind = "Triangle" -> Triangle_isValid(this)

-----------------------------------------------------------------------------
(* GeometryCalculator: the const member functions, as functions of shapes_ *)

shapeCount == Len(shapes_)

\* the loop "for (const auto& shape : shapes_) total += shape->area()",
\* at element i with the running total
RECURSIVE totalAreaLoop(_, _)
totalAreaLoop(i, total) ==
    IF i > Len(shapes_) THEN total
    ELSE totalAreaLoop(i + 1, RAdd(total, area(shapes_[i])))

\* Faulty variant: the loop misses the first element.
\* C7_TotalsAreSums does not hold of it.
totalArea_SkipsFirst == totalAreaLoop(2, Rat(0))

totalArea == totalAreaLoop(1, Rat(0))

\* the loop "for (const auto& shape : shapes_) total += shape->perimeter()"
RECURSIVE totalPerimeterLoop(_, _)
totalPerimeterLoop(i, total) ==
    IF i > Len(shapes_) THEN total
    ELSE totalPerimeterLoop(i + 1, RAdd(total, perimeter(shapes_[i])))

totalPerimeter == totalPerimeterLoop(1, Rat(0))

\* Faulty variant: the bound check is off by one and hides the last element.
\* C5_GetShapeByInsertionOrder does not hold of it.
getShape_OffByOne(index) ==
    IF index + 1 >= Len(shapes_) THEN NULL
    ELSE shapes_[index + 1]

\* index is a size_t, counted from 0; shapes_[index] is element index + 1 here
getShape(index) ==
    IF index >= Len(shapes_) THEN NULL
    ELSE shapes_[index + 1]

\* addShape and clear are given by the value of shapes_ they leave.

\* Faulty variant: the new element is put in front.
\* C4_AddShapeAppendsIffValid does not hold of it.
addShape_InFront(shape) ==
    IF shape # NULL /\ isValid(shape) THEN <<shape>> \o shapes_
    ELSE shapes_

\* Faulty variant: only the null check is made.
\* C8_StoredShapesValid does not hold of it.
addShape_NullCheckOnly(shape) ==
    IF shape # NULL THEN Append(shapes_, shape)
    ELSE shapes_

addShape(shape) ==
    IF shape # NULL /\ isValid(shape) THEN Append(shapes_, shape)
    ELSE shapes_

\* Faulty variant: only the last element is removed.
\* C6_ClearEmpties does not hold of it.
clear_LastOnly ==
    IF shapes_ = << >> THEN << >>
    ELSE SubSeq(shapes_, 1, Len(shapes_) - 1)

clear == << >>

-----------------------------------------------------------------------------
(* Calls *)

NoCall ==
    [op |-> "none", args |-> << >>, ptr |-> NULL, index |-> 0,
     threw |-> FALSE, ret |-> NULL, before |-> 0, text |-> ""]

\* a call of a constructor or setter with its arguments, and whether it threw
ShapeCall(op, args, threw) ==
    [NoCall EXCEPT !.op = op, !.args = args, !.threw = threw]

Idle == call.op = "none"

calcVars == <<shapes_, accepted, sumArea, sumPerimeter>>

(* The caller constructs, mutates and destroys the instance it holds *)

ConstructCircle ==
    /\ Idle /\ obj = NULL
    /\ \E radius \in Doubles :
        /\ LET r == Circle(radius)
           IN  /\ obj' = r.obj
               /\ call' = ShapeCall("Circle", <<radius>>, r.threw)
        /\ UNCHANGED calcVars

ConstructRectangle ==
    /\ Idle /\ obj = NULL
    /\ \E width, height \in Doubles :
        /\ LET r == Rectangle(width, height)
           IN  /\ obj' = r.obj
               /\ call' = ShapeCall("Rectangle", <<width, height>>, r.threw)
        /\ UNCHANGED calcVars

ConstructTriangle ==
    /\ Idle /\ obj = NULL
    /\ \E a, b, c \in Doubles :
        /\ LET r == Triangle(a, b, c)
           IN  /\ obj' = r.obj
               /\ call' = ShapeCall("Triangle", <<a, b, c>>, r.threw)
        /\ UNCHANGED calcVars

SetRadius ==
    /\ Idle /\ obj.kind = "Circle"
    /\ \E radius \in Doubles :
        /\ LET r == setRadius(obj, radius)
           IN  /\ obj' = r.obj
               /\ call' = ShapeCall("setRadius", <<radius>>, r.threw)
        /\ UNCHANGED calcVars

SetDimensions ==
    /\ Idle /\ obj.kind = "Rectangle"
    /\ \E width, height \in Doubles :
        /\ LET r == setDimensions(obj, width, height)
           IN  /\ obj' = r.obj
               /\ call' = ShapeCall("setDimensions", <<width, height>>,
                                    r.threw)
        /\ UNCHANGED calcVars

SetSides ==
    /\ Idle /\ obj.kind = "Triangle"
    /\ \E a, b, c \in Doubles :
        /\ LET r == setSides(obj, a, b, c)
           IN  /\ obj' = r.obj
               /\ call' = ShapeCall("setSides", <<a, b, c>>, r.threw)
        /\ UNCHANGED calcVars

\* the caller asks the instance for its display name; name() is const
Name ==
    /\ Idle /\ obj # NULL
    /\ obj' = obj
    /\ call' = [NoCall EXCEPT !.op = "name", !.text = name(obj)]
    /\ UNCHANGED calcVars

\* the instance goes out of scope
Destroy ==
    /\ Idle /\ obj # NULL
    /\ obj' = NULL
    /\ call' = ShapeCall("~Shape", << >>, FALSE)
    /\ UNCHANGED calcVars

\* the caller has seen the outcome of its call and goes on
Return ==
    /\ ~Idle
    /\ call' = NoCall
    /\ UNCHANGED <<obj, calcVars>>

Init ==
    /\ obj = NULL
    /\ shapes_ = << >>
    /\ call = NoCall
    /\ accepted = << >>
    /\ sumArea = Rat(0)
    /\ sumPerimeter = Rat(0)

ShapeNext ==
    \/ ConstructCircle
    \/ ConstructRectangle
    \/ ConstructTriangle
    \/ SetRadius
    \/ SetDimensions
    \/ SetSides
    \/ Name
    \/ Destroy
    \/ Return

\* the life of one shape instance in the caller's hands
SpecShapes == Init /\ [][ShapeNext]_vars

-----------------------------------------------------------------------------
(* The caller of a GeometryCalculator *)

\* Sample parameter values of the instances handed to addShape
PoolValues == {D(0), D(3), D(4), NaN}

\* What the constructors produce from them, as main.cpp and the tests call
\* std::make_unique<Circle>(r) etc.: only calls that did not throw yield one
Constructed ==
    {c.obj : c \in
        {o \in {Circle(r) : r \in PoolValues}
                 \cup {Rectangle(D(3), h) : h \in PoolValues}
                 \cup {Triangle(D(3), D(4), x) : x \in PoolValues} :
            ~o.threw}}

\* and what a setter call on such an instance leaves before it is handed over
Mutated ==
    {setSides(t, NaN, D(4), D(4)).obj :
        t \in {o \in Constructed : o.kind = "Triangle"}}

\* std::unique_ptr<Shape> arguments of addShape
Pointers == {NULL} \cup Constructed \cup Mutated

\* size_t arguments of getShape: every position and two past the end
Indices == 0 .. MaxShapes + 1

CalcCall(op, ptr, index, ret) ==
    [NoCall EXCEPT !.op = op, !.ptr = ptr, !.index = index, !.ret = ret,
                   !.before = Len(shapes_)]

\* calculator.addShape(std::move(shape)).  The history variables record the
\* argument when the call made shapes_ longer.
AddShape ==
    /\ Idle /\ Len(shapes_) < MaxShapes
    /\ \E shape \in Pointers :
        /\ shapes_' = addShape(shape)
        /\ call' = CalcCall("addShape", shape, 0, NULL)
        /\ IF Len(shapes_') > Len(shapes_)
           THEN /\ accepted' = Append(accepted, shape)
                /\ sumArea' = RAdd(sumArea, area(shape))
                /\ sumPerimeter' = RAdd(sumPerimeter, perimeter(shape))
           ELSE UNCHANGED <<accepted, sumArea, sumPerimeter>>
        /\ obj' = obj

\* calculator.clear()
Clear ==
    /\ Idle
    /\ shapes_' = clear
    /\ call' = CalcCall("clear", NULL, 0, NULL)
    /\ accepted' = << >>
    /\ sumArea' = Rat(0)
    /\ sumPerimeter' = Rat(0)
    /\ obj' = obj

\* calculator.getShape(index), a const member function
GetShape ==
    /\ Idle
    /\ \E index \in Indices :
        /\ call' = CalcCall("getShape", NULL, index, getShape(index))
        /\ UNCHANGED <<obj, calcVars>>

\* the other const member functions.  What shapeCount(), totalArea() and
\* totalPerimeter() return is shapeCount, totalArea and totalPerimeter of
\* the state; the text getShapesInfo() returns is not modelled.
Query ==
    /\ Idle
    /\ \E op \in {"shapeCount", "totalArea", "totalPerimeter", "getShapesInfo"} :
        /\ call' = CalcCall(op, NULL, 0, NULL)
        /\ UNCHANGED <<obj, calcVars>>

CalcNext ==
    \/ AddShape
    \/ Clear
    \/ GetShape
    \/ Query
    \/ Return

\* one GeometryCalculator and its caller
Spec == Init /\ [][CalcNext]_vars

-----------------------------------------------------------------------------
(* Claims about the shape instances, checked under SpecShapes *)

Constructors == {"Circle", "Rectangle", "Triangle"}

Setters == {"setRadius", "setDimensions", "setSides"}

\* what a caller can read off an instance: the getters and the Shape interface
Attributes(o) ==
    CASE o.kind = "Circle" -> <<o.radius_>>
      [] o.kind = "Rectangle" -> <<o.width_, o.height_>>
      [] o.kind = "Triangle" -> sides(o)

Observe(o) == <<o.kind, Attributes(o), area(o), perimeter(o), name(o), isValid(o)>>

\* C1: every successfully constructed Circle, Rectangle and Triangle
\* satisfies isValid(), right after construction and after any sequence of
\* setter calls, whether they succeed or throw.
C1_LiveInstanceIsValid == obj # NULL => isValid(obj)

\* The failure conditions as the specification writes them:
\* radius <= 0; width <= 0 or height <= 0; a side <= 0, or a + b <= c or
\* b + c <= a or a + c <= b
NonPositive(args) == \E i \in 1 .. Len(args) : DLe(args[i], Zero)

PairwiseViolated(args) ==
    \/ DLe(DAdd(args[1], args[2]), args[3])
    \/ DLe(DAdd(args[2], args[3]), args[1])
    \/ DLe(DAdd(args[1], args[3]), args[2])

StatedFailure(args) ==
    NonPositive(args) \/ (Len(args) = 3 /\ PairwiseViolated(args))

\* C2: a setter call whose proposed values fail validation (a value <= 0, or
\* for setSides a + b <= c or b + c <= a or a + c <= b) throws, and a setter
\* call that throws leaves every attribute of the instance, and so area(),
\* perimeter(), name() and isValid(), as they were before the call: none of
\* the proposed values is stored.
C2_FailedSetterChangesNothing ==
    [][call'.op \in Setters =>
          /\ StatedFailure(call'.args) => call'.threw
          /\ call'.threw => obj' = obj /\ Observe(obj') = Observe(obj)]_vars

\* a setSides call threw on the triangle inequality alone, with three
\* positive sides of which the first differs from the stored one
C2_Witness ==
    /\ call.op = "setSides" /\ call.threw
    /\ ~NonPositive(call.args)
    /\ call.args[1] # obj.side_a_
    /\ call.args[2] # obj.side_b_

\* C3 as stated: construction throws and yields no instance when a value is
\* <= 0 or, for a Triangle, a + b <= c or b + c <= a or a + c <= b; for every
\* other parameter value it succeeds and the instance stores the parameters.
C3_AsStated ==
    call.op \in Constructors =>
        IF StatedFailure(call.args)
        THEN call.threw /\ obj = NULL
        ELSE ~call.threw /\ obj # NULL /\ obj.kind = call.op
             /\ Attributes(obj) = call.args

\* the triangle inequality itself: each pair of sides sums to more than the third
PairwiseSatisfied(args) ==
    /\ DGt(DAdd(args[1], args[2]), args[3])
    /\ DGt(DAdd(args[2], args[3]), args[1])
    /\ DGt(DAdd(args[1], args[3]), args[2])

\* C3, amended: construction throws and yields no instance when a value is
\* <= 0 or, for a Triangle, when it is not the case that a + b > c and
\* b + c > a and a + c > b; for every other parameter value it succeeds and
\* the instance stores exactly the given parameters.
C3_ConstructionFailsOrStores ==
    call.op \in Constructors =>
        IF NonPositive(call.args)
           \/ (call.op = "Triangle" /\ ~PairwiseSatisfied(call.args))
        THEN call.threw /\ obj = NULL
        ELSE ~call.threw /\ obj # NULL /\ obj.kind = call.op
             /\ Attributes(obj) = call.args

\* a Triangle constructor call threw on sides of which none is <= 0 and no
\* two sum to at most the third: one of them is a NaN
C3_Witness ==
    /\ call.op = "Triangle" /\ call.threw /\ obj = NULL
    /\ ~StatedFailure(call.args)

\* what the constructor of the instance's class does with the same values
ConstructLike(o, args) ==
    CASE o.kind = "Circle" -> Circle(args[1])
      [] o.kind = "Rectangle" -> Rectangle(args[1], args[2])
      [] o.kind = "Triangle" -> Triangle(args[1], args[2], args[3])

\* C9: a setter call succeeds exactly when the constructor succeeds on the
\* same values, and after a successful call the instance cannot be told
\* from a freshly constructed one with those values.
C9_SetterValidatesLikeConstructor ==
    call.op \in Setters =>
        /\ call.threw <=> ConstructLike(obj, call.args).threw
        /\ ~call.threw => Observe(obj) = Observe(ConstructLike(obj, call.args).obj)

\* |x - y| < epsilon
Within(x, y) == DLt(DAbs(DSub(x, y)), D(epsilon))

\* C10: for every valid triangle isEquilateral() is true exactly when each
\* of |a-b|, |b-c| and |a-c| is below epsilon, isIsosceles() exactly when at
\* least one of them is, and isEquilateral() implies isIsosceles().
C10_Classification ==
    (obj.kind = "Triangle" /\ isValid(obj)) =>
        LET a == obj.side_a_
            b == obj.side_b_
            c == obj.side_c_
        IN  /\ isEquilateral(obj) <=>
                   (Within(a, b) /\ Within(b, c) /\ Within(a, c))
            /\ isIsosceles(obj) <=>
                   (Within(a, b) \/ Within(b, c) \/ Within(a, c))
            /\ isEquilateral(obj) => isIsosceles(obj)

\* the display name the specification gives a triangle with the sides s
StatedName(s) ==
    LET t == [kind |-> "Triangle", side_a_ |-> s[1], side_b_ |-> s[2],
              side_c_ |-> s[3]]
    IN  IF isEquilateral(t) THEN "Equilateral Triangle"
        ELSE IF isIsosceles(t) THEN "Isosceles Triangle"
        ELSE "Scalene Triangle"

\* C11: in every reachable state of a Triangle name() is determined by the
\* stored sides only: "Equilateral Triangle" if isEquilateral(), otherwise
\* "Isosceles Triangle" if isIsosceles(), otherwise "Scalene Triangle".
\* After a successful setSides it is the name of the proposed sides and not
\* of the replaced ones, after a failed setSides the name of the sides held
\* before and not of the proposed ones, and a call of name() returns that
\* name and leaves the instance as it was, so that repeated calls agree.
C11_NameFollowsStoredSides ==
    [][obj'.kind = "Triangle" =>
          /\ name(obj') = StatedName(sides(obj'))
          /\ call'.op = "setSides" =>
                 name(obj') = StatedName(IF call'.threw THEN sides(obj)
                                                        ELSE call'.args)
          /\ call'.op = "name" =>
                 /\ obj' = obj
                 /\ call'.text = StatedName(sides(obj))]_vars

\* a setSides call failed on the triangle inequality for three positive
\* sides that would be named isosceles, and the triangle is still scalene
C11_Witness ==
    /\ call.op = "setSides" /\ call.threw
    /\ ~NonPositive(call.args)
    /\ StatedName(call.args) = "Isosceles Triangle"
    /\ obj.kind = "Triangle"
    /\ name(obj) = "Scalene Triangle"

\* C12: for every live Triangle, reached through the constructor and any
\* sequence of setSides calls, the Heron radicand s (s - a) (s - b) (s - c)
\* with s = (a + b + c) / 2 that area() computes is non-negative: 0 <= it
\* holds as the code would evaluate it, so that area() never takes the
\* square root of a negative number.
C12_RadicandNonNegative ==
    obj.kind = "Triangle" => DLe(Zero, Triangle_radicand16(obj))

-----------------------------------------------------------------------------
(* Claims about the GeometryCalculator, checked under Spec *)

\* C4: addShape(s) appends s as the new last element, so that shapeCount()
\* grows by exactly 1 and every element stored before keeps its index, if
\* and only if s is non-null and s.isValid(); otherwise the stored sequence
\* is unchanged; in neither case is an error raised.
C4_AddShapeAppendsIffValid ==
    [][call'.op = "addShape" =>
          /\ ~call'.threw
          /\ IF call'.ptr # NULL /\ isValid(call'.ptr)
             THEN /\ Len(shapes_') = Len(shapes_) + 1
                  /\ \A i \in 1 .. Len(shapes_) : shapes_'[i] = shapes_[i]
                  /\ shapes_'[Len(shapes_')] = call'.ptr
             ELSE shapes_' = shapes_]_vars

\* a valid shape was appended behind two stored ones, of which the first is
\* of another class
C4_Witness ==
    /\ call.op = "addShape" /\ call.before = 2
    /\ shapeCount = 3
    /\ shapes_[3] = call.ptr
    /\ shapes_[1].kind # call.ptr.kind

\* C5: getShape(i) returns the (i+1)-th accepted insertion since the last
\* clear when 0 <= i < shapeCount(), and nullptr, without an error, when
\* i >= shapeCount(); a getShape call leaves the stored sequence unchanged.
C5_GetShapeByInsertionOrder ==
    [][/\ \A i \in Indices :
            IF i < Len(shapes_')
            THEN /\ i < Len(accepted')
                 /\ getShape(i)' = accepted'[i + 1]
            ELSE getShape(i)' = NULL
       /\ call'.op = "getShape" =>
            /\ shapes_' = shapes_
            /\ ~call'.threw
            /\ call'.ret = IF call'.index < Len(shapes_')
                           THEN accepted'[call'.index + 1]
                           ELSE NULL]_vars

\* getShape returned the second of three stored shapes, and it is not the
\* first one
C5_Witness ==
    /\ call.op = "getShape" /\ call.index = 1
    /\ shapeCount = 3
    /\ call.ret = accepted[2]
    /\ call.ret # accepted[1]

\* C6: after clear(), on an empty or a non-empty collection, shapeCount()
\* is 0, totalArea() and totalPerimeter() are 0 and getShape(i) is nullptr
\* for every i; the addShape calls accepted after it are stored from
\* index 0 on: the n-th of them is found at index n - 1.
C6_ClearEmpties ==
    [][/\ call'.op = "clear" =>
            /\ shapeCount' = 0
            /\ totalArea' = Rat(0)
            /\ totalPerimeter' = Rat(0)
            /\ \A i \in Indices : getShape(i)' = NULL
       /\ (call'.op = "addShape" /\ accepted' # accepted) =>
            getShape(Len(accepted) - 1)' = call'.ptr]_vars

\* clear() was called on a collection of two shapes
C6_Witness ==
    /\ call.op = "clear" /\ call.before = 2
    /\ shapeCount = 0

\* C7: totalArea() is the sum of area() and totalPerimeter() the sum of
\* perimeter() over exactly the shapes stored now, each once, without the
\* rejected and the cleared ones; both are 0 for an empty collection.
C7_TotalsAreSums ==
    /\ totalArea = sumArea
    /\ totalPerimeter = sumPerimeter
    /\ shapeCount = 0 => totalArea = Rat(0) /\ totalPerimeter = Rat(0)

\* a circle, a rectangle and a triangle are stored, the last of them just
\* added, and each contributes its term to totalArea()
C7_Witness ==
    /\ shapeCount = 3
    /\ {shapes_[i].kind : i \in 1 .. 3} = {"Circle", "Rectangle", "Triangle"}
    /\ totalArea.pi > 0 /\ totalArea.rat > 0 /\ totalArea.roots # EmptyBag
    /\ call.op = "addShape" /\ call.before = 2

\* C8: every stored element is a non-null shape, and it satisfies
\* isValid(), in every reachable state of the calculator.
C8_StoredShapesValid ==
    \A i \in 1 .. Len(shapes_) : shapes_[i] # NULL /\ isValid(shapes_[i])

\* two shapes are stored and an instance that is not valid was just
\* offered to addShape
C8_Witness ==
    /\ shapeCount = 2
    /\ call.op = "addShape" /\ call.ptr # NULL /\ ~isValid(call.ptr)

=============================================================================
